---- MODULE Spec2Model ----
(***************************************************************************)
(* A model of the value-conversion utilities of Nitro-Bolt/shared:         *)
(*   Sanitizer (src/src/sanitizer.ts), Color (src/unnamed/part_001) and    *)
(*   Cast (src/unnamed/part_002).                                          *)
(*                                                                         *)
(* JavaScript values are tagged records [t, v].  Containers live in a heap *)
(* (a sequence of objects, an address is an index), so that identity,      *)
(* in-place mutation and the prototype of a mapping are observable.        *)
(* Strings are sequences of one-character strings; a text handed to        *)
(* JSON.parse is a sequence of lexical tokens.                             *)
(***************************************************************************)
EXTENDS Integers, Sequences, FiniteSets, TLC

VARIABLES heap, heap0, arg, call, out, prev

vars == <<heap, heap0, arg, call, out, prev>>

(***************************************************************************)
(* Values                                                                  *)
(***************************************************************************)
VNull == [t |-> "null"]
VUndef == [t |-> "undefined"]
Num(n) == [t |-> "number", k |-> "finite", v |-> n]
NaN == [t |-> "number", k |-> "NaN", v |-> 0]
Str(s) == [t |-> "string", v |-> s]
Bool(b) == [t |-> "boolean", v |-> b]
Ref(a) == [t |-> "ref", v |-> a]

NoCall == [fn |-> "none"]
NoValue == [t |-> "none"]

\* val == null
IsNullish(val) == val.t \in {"null", "undefined"}

\* x ?? d
Coalesce(x, d) == IF IsNullish(x) THEN d ELSE x

\* if (x): the truthiness of an optional boolean parameter
Truthy(x) == x.t = "boolean" /\ x.v

\* Array.isArray(val)
IsArray(h, val) == val.t = "ref" /\ h[val.v].kind = "array"

\* val instanceof Map
IsMap(h, val) == val.t = "ref" /\ h[val.v].kind = "map"

\* A result of a heap-threading operation: the heap after it and its value.
R(h, v) == [h |-> h, v |-> v]

\* A freshly allocated container.
New(h, kind, proto, items) ==
  R(Append(h, [kind |-> kind, proto |-> proto, items |-> items]), Ref(Len(h) + 1))

\* Object.keys(obj): the own enumerable string keys.  A Map instance (or any
\* object whose data sits in internal slots) has none.
ObjectKeys(o) ==
  IF o.kind = "object" THEN [i \in 1..Len(o.items) |-> o.items[i].k] ELSE <<>>

\* obj[key]
GetProp(o, key) ==
  LET hit == {i \in 1..Len(o.items) : o.items[i].k = key}
  IN IF hit = {} THEN VUndef ELSE o.items[CHOOSE i \in hit : TRUE].v

\* obj[key] = val  (key is one of Object.keys(obj))
SetProp(h, a, key, val) ==
  [h EXCEPT ![a].items =
     [i \in 1..Len(@) |-> IF @[i].k = key THEN [k |-> key, v |-> val] ELSE @[i]]]

\* The own enumerable properties Object.assign copies from a source.
OwnProps(o) == IF o.kind = "object" THEN o.items ELSE <<>>

RemoveAt(s, i) == SubSeq(s, 1, i - 1) \o SubSeq(s, i + 1, Len(s))

(***************************************************************************)
(* Sanitizer                                                               *)
(***************************************************************************)
RECURSIVE value(_, _, _, _)
RECURSIVE array(_, _, _, _)
RECURSIVE arrayLoop(_, _, _, _, _, _)
RECURSIVE object(_, _, _, _)
RECURSIVE objectLoop(_, _, _, _, _)
RECURSIVE map(_, _, _, _)
RECURSIVE mapLoop(_, _, _, _, _)

\* The flatMap callback of Sanitizer.array applied to elements i.. of arr;
\* acc collects the returned pieces, the new array is allocated at the end.
arrayLoop(h, arr, def, nullAssign, i, acc) ==
  IF i > Len(h[arr.v].items) THEN New(h, "array", "Array.prototype", acc)
  ELSE LET val == h[arr.v].items[i] IN
    IF IsNullish(val) THEN arrayLoop(h, arr, def, nullAssign, i + 1, acc)
    ELSE IF IsArray(h, val)
      THEN LET r == array(h, val, def, VUndef)
           IN arrayLoop(r.h, arr, def, nullAssign, i + 1, Append(acc, r.v))
    ELSE IF val.t # "ref"
      THEN arrayLoop(h, arr, def, nullAssign, i + 1, Append(acc, val))
    ELSE LET r == object(h, val, def, nullAssign)
         IN arrayLoop(r.h, arr, def, nullAssign, i + 1, Append(acc, r.v))

array(h, arr, def, nullAssign) == arrayLoop(h, arr, def, nullAssign, 1, <<>>)

\* The for loop of Sanitizer.object over keys[i..].
objectLoop(h, obj, def, keys, i) ==
  IF i > Len(keys) THEN h
  ELSE LET r == value(h, GetProp(h[obj.v], keys[i]), def, VUndef)
       IN objectLoop(SetProp(r.h, obj.v, keys[i], r.v), obj, def, keys, i + 1)

object(h, obj, def, nullAssign) ==
  LET h1 == objectLoop(h, obj, def, ObjectKeys(h[obj.v]), 1)
  IN IF Truthy(nullAssign)
       THEN New(h1, "object", "null", OwnProps(h1[obj.v]))
       ELSE R(h1, obj)

\* The for-of loop of Sanitizer.map over the live entries from position i.
mapLoop(h, m, def, nullAssign, i) ==
  IF i > Len(h[m.v].items) THEN R(h, m)
  ELSE LET e == h[m.v].items[i] IN
    IF IsNullish(e.k)
      THEN mapLoop([h EXCEPT ![m.v].items = RemoveAt(@, i)], m, def, nullAssign, i)
      ELSE LET r == value(h, e.v, def, nullAssign)
           IN mapLoop([r.h EXCEPT ![m.v].items[i].v = r.v], m, def, nullAssign, i + 1)

map(h, m, def, nullAssign) == mapLoop(h, m, def, nullAssign, 1)

value(h, val, def0, nullAssign0) ==
  LET def == Coalesce(def0, Str(<<>>))
      nullAssign == Coalesce(nullAssign0, Bool(TRUE))
  IN IF IsNullish(val) THEN R(h, def)
     ELSE IF val.t # "ref" THEN R(h, val)
     ELSE IF IsArray(h, val) THEN array(h, val, def, nullAssign)
     ELSE IF IsMap(h, val) THEN map(h, val, def, nullAssign)
     ELSE object(h, val, def, nullAssign)

(***************************************************************************)
(* JSON.parse(text, reviver).  The text is a sequence of lexical tokens:   *)
(* the punctuators, the literals null and 1, and string literals.  Parsing *)
(* builds plain arrays and Object.prototype mappings in the heap; a token  *)
(* sequence outside the grammar is a SyntaxError (ok = FALSE).             *)
(***************************************************************************)
TokNull == "null"
TokOne == "1"
TokStr == "\"a\""

\* String literals whose content is itself a text: the literal that encodes
\* the text "a" (TokStr), the literal that encodes that one, and the literal
\* that encodes the text [].
TokStr2 == "\"\\\"a\\\"\""
TokStr3 == "\"\\\"\\\\\\\"a\\\\\\\"\\\"\""
TokStrArr == "\"[]\""

\* Each string literal with the string it denotes.  The content of TokStr
\* is the one character a, which is not a JSON text.
StrLits ==
  <<[tok |-> TokStr, content |-> <<"a">>],
    [tok |-> TokStr2, content |-> <<TokStr>>],
    [tok |-> TokStr3, content |-> <<TokStr2>>],
    [tok |-> TokStrArr, content |-> <<"[", "]">>]>>

IsStrTok(tok) == \E i \in 1..Len(StrLits) : StrLits[i].tok = tok

StrContent(tok) == StrLits[CHOOSE i \in 1..Len(StrLits) : StrLits[i].tok = tok].content

PFail == [ok |-> FALSE]
POk(h, v, i) == [ok |-> TRUE, h |-> h, v |-> v, i |-> i]

TokAt(toks, i) == IF i <= Len(toks) THEN toks[i] ELSE "<end>"

\* Define or overwrite an own property, keeping insertion order.
PutProp(items, key, val) ==
  IF \E i \in 1..Len(items) : items[i].k = key
    THEN [i \in 1..Len(items) |->
            IF items[i].k = key THEN [k |-> key, v |-> val] ELSE items[i]]
    ELSE Append(items, [k |-> key, v |-> val])

RECURSIVE ParseValue(_, _, _)
RECURSIVE ParseElements(_, _, _, _)
RECURSIVE ParseMembers(_, _, _, _)

ParseElements(toks, i, h, acc) ==
  LET r == ParseValue(toks, i, h) IN
  IF ~r.ok THEN PFail
  ELSE IF TokAt(toks, r.i) = ","
    THEN ParseElements(toks, r.i + 1, r.h, Append(acc, r.v))
  ELSE IF TokAt(toks, r.i) = "]"
    THEN LET n == New(r.h, "array", "Array.prototype", Append(acc, r.v))
         IN POk(n.h, n.v, r.i + 1)
  ELSE PFail

ParseMembers(toks, i, h, acc) ==
  IF ~IsStrTok(TokAt(toks, i)) \/ TokAt(toks, i + 1) # ":" THEN PFail
  ELSE LET r == ParseValue(toks, i + 2, h) IN
    IF ~r.ok THEN PFail
    ELSE IF TokAt(toks, r.i) = ","
      THEN ParseMembers(toks, r.i + 1, r.h, PutProp(acc, StrContent(toks[i]), r.v))
    ELSE IF TokAt(toks, r.i) = "}"
      THEN LET n == New(r.h, "object", "Object.prototype", PutProp(acc, StrContent(toks[i]), r.v))
           IN POk(n.h, n.v, r.i + 1)
    ELSE PFail

ParseValue(toks, i, h) ==
  LET tok == TokAt(toks, i) IN
  IF tok = TokNull THEN POk(h, VNull, i + 1)
  ELSE IF tok = TokOne THEN POk(h, Num(1), i + 1)
  ELSE IF IsStrTok(tok) THEN POk(h, Str(StrContent(tok)), i + 1)
  ELSE IF tok = "["
    THEN IF TokAt(toks, i + 1) = "]"
           THEN LET n == New(h, "array", "Array.prototype", <<>>)
                IN POk(n.h, n.v, i + 2)
           ELSE ParseElements(toks, i + 1, h, <<>>)
  ELSE IF tok = "{"
    THEN IF TokAt(toks, i + 1) = "}"
           THEN LET n == New(h, "object", "Object.prototype", <<>>)
                IN POk(n.h, n.v, i + 2)
           ELSE ParseMembers(toks, i + 1, h, <<>>)
  ELSE PFail

\* The whole text must be one value.
ParseText(toks, h) ==
  LET r == ParseValue(toks, 1, h)
  IN IF r.ok /\ r.i = Len(toks) + 1 THEN r ELSE PFail

\* The reviver walk of JSON.parse: children first, in order, each replaced by
\* what the reviver returns for it, then the reviver on the value itself.  The
\* reviver of Sanitizer.parseJSON is (_key, value) => this.value(value, def,
\* nullAssign); it never returns undefined, so no property is deleted.
RECURSIVE Internalize(_, _, _, _)
RECURSIVE InternalizeItems(_, _, _, _, _)

InternalizeItems(h, a, def, nullAssign, i) ==
  IF i > Len(h[a].items) THEN h
  ELSE LET cur == h[a].items[i]
           child == IF h[a].kind = "array" THEN cur ELSE cur.v
           r == Internalize(h, child, def, nullAssign)
           h1 == IF h[a].kind = "array"
                   THEN [r.h EXCEPT ![a].items[i] = r.v]
                   ELSE [r.h EXCEPT ![a].items[i].v = r.v]
       IN InternalizeItems(h1, a, def, nullAssign, i + 1)

Internalize(h, val, def, nullAssign) ==
  IF val.t = "ref"
    THEN value(InternalizeItems(h, val.v, def, nullAssign, 1), val, def, nullAssign)
    ELSE value(h, val, def, nullAssign)

JSONparse(h, toks, def, nullAssign) ==
  LET p == ParseText(toks, h)
  IN IF ~p.ok THEN PFail
     ELSE LET r == Internalize(p.h, p.v, def, nullAssign)
          IN [ok |-> TRUE, h |-> r.h, v |-> r.v]

\* What a call returns: the heap after it, the value, and the exception
\* raised ("none" when it returned normally).
Ret(r) == [h |-> r.h, v |-> r.v, exc |-> "none"]

\* Sanitizer.parseJSON without its try/catch: the SyntaxError propagates.
parseJSON_NoCatch(h, val, def0, nullAssign0) ==
  LET def == Coalesce(def0, Str(<<>>))
      nullAssign == Coalesce(nullAssign0, Bool(TRUE))
  IN IF val.t # "string" THEN Ret(value(h, val, def, nullAssign))
     ELSE LET p == JSONparse(h, val.v, def, nullAssign)
          IN IF p.ok THEN Ret(value(p.h, p.v, def, nullAssign))
                     ELSE [h |-> h, v |-> NoValue, exc |-> "SyntaxError"]

parseJSON(h, val, def0, nullAssign0) ==
  LET def == Coalesce(def0, Str(<<>>))
      nullAssign == Coalesce(nullAssign0, Bool(TRUE))
  IN IF val.t # "string" THEN Ret(value(h, val, def, nullAssign))
     ELSE LET p == JSONparse(h, val.v, def, nullAssign)
          IN IF p.ok THEN Ret(value(p.h, p.v, def, nullAssign))
                     ELSE Ret(value(h, def, def, nullAssign))

(***************************************************************************)
(* Inputs of the Sanitizer specification: literal trees, allocated into a  *)
(* fresh heap, and token texts.                                            *)
(***************************************************************************)
MaxLen == 2
MaxDepth == 3
MaxText == 5

Leaves == {VNull, VUndef, Num(1)}
Tokens == {"[", "]", "{", "}", ",", ":", TokNull, TokStr}
KeyNames == <<"a", "b", "c", "d">>

SeqsUpTo(S, n) == UNION {[1..k -> S] : k \in 0..n}

Tree(kind, items) == [t |-> "tree", kind |-> kind, items |-> items]

\* A map literal may hold the key null in its first entry and the key
\* undefined in its second.
MapKeys(i) ==
  {Str(<<KeyNames[i]>>)} \cup (IF i = 1 THEN {VNull} ELSE IF i = 2 THEN {VUndef} ELSE {})

LeafContainers ==
  {Tree("array", s) : s \in SeqsUpTo(Leaves, MaxLen)}
  \cup {Tree("object", [i \in 1..Len(s) |-> [k |-> <<KeyNames[i]>>, v |-> s[i]]]) :
          s \in SeqsUpTo(Leaves, MaxLen)}
  \cup UNION {{Tree("map", [i \in 1..n |-> [k |-> ks[i], v |-> s[i]]]) :
                 ks \in {f \in [1..n -> {Str(<<KeyNames[j]>>) : j \in 1..n} \cup {VNull, VUndef}] :
                           \A i \in 1..n : f[i] \in MapKeys(i)},
                 s \in [1..n -> Leaves]} : n \in 0..MaxLen}

\* The containers holding exactly one container c.
Nest(c) ==
  {Tree("array", <<c>>),
   Tree("object", <<[k |-> <<"a">>, v |-> c]>>),
   Tree("map", <<[k |-> Str(<<"a">>), v |-> c]>>)}

RECURSIVE Containers(_)
Containers(d) ==
  IF d <= 1 THEN LeafContainers
  ELSE LET C == Containers(d - 1) IN C \cup UNION {Nest(c) : c \in C}

RECURSIVE Alloc(_, _)
RECURSIVE AllocItems(_, _, _, _, _)

\* Allocate the children items[i..] of a literal, then the container itself.
AllocItems(h, kind, items, i, acc) ==
  IF i > Len(items) THEN
    New(h, kind,
        IF kind = "array" THEN "Array.prototype"
        ELSE IF kind = "map" THEN "Map.prototype" ELSE "Object.prototype",
        acc)
  ELSE IF kind = "array"
    THEN LET r == Alloc(h, items[i])
         IN AllocItems(r.h, kind, items, i + 1, Append(acc, r.v))
    ELSE LET r == Alloc(h, items[i].v)
         IN AllocItems(r.h, kind, items, i + 1, Append(acc, [k |-> items[i].k, v |-> r.v]))

Alloc(h, tree) ==
  IF tree.t = "tree" THEN AllocItems(h, tree.kind, tree.items, 1, <<>>) ELSE R(h, tree)

Defs == {VUndef, Str(<<"d">>)}
Flags == {VUndef, Bool(TRUE), Bool(FALSE)}

(***************************************************************************)
(* The Sanitizer specification: one call of one entry point on one input.  *)
(* heap0 is the heap before the call.                                      *)
(***************************************************************************)
Given(inp) == heap = inp.h /\ heap0 = inp.h /\ arg = inp.v

SanInit ==
  /\ \/ \E l \in Leaves : Given(R(<<>>, l))
     \/ \E c \in Containers(MaxDepth) : Given(Alloc(<<>>, c))
     \/ \E s \in SeqsUpTo(Tokens, MaxText) : Given(R(<<>>, Str(s)))
  /\ call = NoCall
  /\ out = NoValue
  /\ prev = NoCall

Returned(fn, def, nullAssign, r) ==
  /\ heap' = r.h
  /\ out' = [v |-> r.v, exc |-> r.exc]
  /\ call' = [fn |-> fn, def |-> def, nullAssign |-> nullAssign]
  /\ UNCHANGED <<heap0, arg, prev>>

CallValue ==
  /\ call = NoCall
  /\ arg.t # "string"
  /\ \E def \in Defs, nullAssign \in Flags :
       Returned("value", def, nullAssign, Ret(value(heap, arg, def, nullAssign)))

CallArray ==
  /\ call = NoCall
  /\ IsArray(heap, arg)
  /\ \E def \in Defs, nullAssign \in Flags :
       Returned("array", def, nullAssign, Ret(array(heap, arg, def, nullAssign)))

CallObject ==
  /\ call = NoCall
  /\ arg.t = "ref" /\ heap[arg.v].kind = "object"
  /\ \E def \in Defs, nullAssign \in Flags :
       Returned("object", def, nullAssign, Ret(object(heap, arg, def, nullAssign)))

CallMap ==
  /\ call = NoCall
  /\ IsMap(heap, arg)
  /\ \E def \in Defs, nullAssign \in Flags :
       Returned("map", def, nullAssign, Ret(map(heap, arg, def, nullAssign)))

CallParseJSON ==
  /\ call = NoCall
  /\ \E def \in Defs, nullAssign \in Flags :
       Returned("parseJSON", def, nullAssign, parseJSON(heap, arg, def, nullAssign))

SanNext == CallValue \/ CallArray \/ CallObject \/ CallMap \/ CallParseJSON

SanSpec == SanInit /\ [][SanNext]_vars

(***************************************************************************)
(* Sanitizer claims                                                        *)
(***************************************************************************)
\* A container's direct values (elements, property values, map values).
ItemValues(o) ==
  IF o.kind = "array" THEN {o.items[i] : i \in 1..Len(o.items)}
  ELSE {o.items[i].v : i \in 1..Len(o.items)}

\* A map's keys.
ItemKeys(o) ==
  IF o.kind = "map" THEN {o.items[i].k : i \in 1..Len(o.items)} ELSE {}

RECURSIVE ReachesNull(_, _)
ReachesNull(h, v) ==
  /\ v.t = "ref"
  /\ \/ \E x \in ItemValues(h[v.v]) : IsNullish(x) \/ ReachesNull(h, x)
     \/ \E x \in ItemKeys(h[v.v]) : IsNullish(x)

\* The addresses of the key-value mappings reachable from v.
RECURSIVE Mappings(_, _)
Mappings(h, v) ==
  IF v.t # "ref" THEN {}
  ELSE (IF h[v.v].kind = "object" THEN {v.v} ELSE {})
       \cup UNION {Mappings(h, x) : x \in ItemValues(h[v.v])}

NonNull(items) == SelectSeq(items, LAMBDA x : ~IsNullish(x))

DefOf(c) == Coalesce(c.def, Str(<<>>))

\* C1: the structure sanitizeValue returns holds no null or undefined at any
\* reachable position (sequence element, mapping value, map value, map key).
C1_NoNullReachable ==
  call.fn = "value" => ~IsNullish(out.v) /\ ~ReachesNull(heap, out.v)

\* C2: with rehomeMapping true (the default), every key-value mapping reachable
\* in what sanitizeValue returns is a new mapping on a prototype-less base.
C2_AllMappingsRehomed ==
  (call.fn = "value" /\ Truthy(Coalesce(call.nullAssign, Bool(TRUE)))) =>
    \A a \in Mappings(heap, out.v) : heap[a].proto = "null" /\ a > Len(heap0)

\* The asymmetry of C3 for a root container `src` (in heap hs) and what was
\* returned for it: a sequence loses its null elements and gains no default;
\* a mapping keeps every key and has the default where the value was null.
Asymmetric(hs, src, def) ==
  /\ out.v.t = "ref"
  /\ LET o == hs[src.v]
         res == heap[out.v.v]
     IN IF o.kind = "array"
          THEN /\ Len(res.items) = Len(NonNull(o.items))
               /\ \A i \in 1..Len(res.items) :
                    NonNull(o.items)[i].t # "ref" => res.items[i] = NonNull(o.items)[i]
          ELSE /\ Len(res.items) = Len(o.items)
               /\ \A i \in 1..Len(o.items) :
                    /\ res.items[i].k = o.items[i].k
                    /\ IsNullish(o.items[i].v) => res.items[i].v = def

\* C3: on every sanitizing path, parseJSON of a text included, a null element
\* of a sequence is omitted (never replaced by the default) while a null value
\* of a mapping keeps its key and becomes the default.
C3_NullAsymmetry ==
  /\ (call.fn \in {"value", "array", "object", "parseJSON"} /\ arg.t = "ref"
        /\ heap0[arg.v].kind # "map")
       => Asymmetric(heap0, arg, DefOf(call))
  /\ (call.fn = "parseJSON" /\ arg.t = "string"
        /\ ParseText(arg.v, <<>>).ok /\ ParseText(arg.v, <<>>).v.t = "ref")
       => Asymmetric(ParseText(arg.v, <<>>).h, ParseText(arg.v, <<>>).v, DefOf(call))

\* C4: sanitizeSequence returns a new sequence and leaves the input sequence
\* and every value it contains as they were before the call.
C4_ArrayDoesNotMutate ==
  call.fn = "array" =>
    /\ out.v.t = "ref" /\ out.v.v > Len(heap0)
    /\ \A a \in 1..Len(heap0) : heap[a] = heap0[a]

\* C5: parseJSON never raises; a text that is not a valid document gives
\* exactly the default ("" when none is given); a non-textual input gives what
\* sanitizeValue gives for it with the same default and flag.
C5_ParseJSONTotal ==
  call.fn = "parseJSON" =>
    /\ out.exc = "none"
    /\ (arg.t = "string" /\ ~ParseText(arg.v, <<>>).ok) => out.v = DefOf(call)
    /\ arg.t # "string" =>
         LET r == value(heap0, arg, call.def, call.nullAssign)
         IN out.v = r.v /\ heap = r.h

\* A malformed text of several tokens was parsed with a caller-supplied default.
C5_Witness ==
  /\ call.fn = "parseJSON"
  /\ arg.t = "string" /\ Len(arg.v) >= 2 /\ ~ParseText(arg.v, <<>>).ok
  /\ call.def = Str(<<"d">>) /\ out.v = Str(<<"d">>)

(***************************************************************************)
(* Number helpers.  Integers stand for themselves; the 32-bit operators    *)
(* are applied to operands within the int32 range, where ToInt32 is the    *)
(* identity.  Fractions are exact rationals <<n, d>> with d > 0, reduced.   *)
(***************************************************************************)
\* Number.isNaN / isNaN of a number
IsNaN(x) == x.k = "NaN"

\* n >> k  (arithmetic shift)
Shr(n, k) == n \div (2 ^ k)

\* n << k  (no operand here overflows 32 bits)
Shl(n, k) == n * (2 ^ k)

\* n & m  for m = 2^j - 1
BitAnd(n, m) == n % (m + 1)

Abs(n) == IF n < 0 THEN -n ELSE n

RECURSIVE GCD(_, _)
GCD(a, b) == IF b = 0 THEN a ELSE GCD(b, a % b)

Q(n, d) ==
  LET g == GCD(Abs(n), Abs(d))
      sg == IF d < 0 THEN -1 ELSE 1
  IN IF g = 0 THEN <<0, 1>> ELSE <<sg * (n \div g), sg * (d \div g)>>

QInt(n) == <<n, 1>>
QAdd(a, b) == Q(a[1] * b[2] + b[1] * a[2], a[2] * b[2])
QSub(a, b) == Q(a[1] * b[2] - b[1] * a[2], a[2] * b[2])
QMul(a, b) == Q(a[1] * b[1], a[2] * b[2])
QDiv(a, b) == Q(a[1] * b[2], a[2] * b[1])
QLt(a, b) == a[1] * b[2] < b[1] * a[2]
QLe(a, b) == a[1] * b[2] <= b[1] * a[2]
QMin(a, b) == IF QLt(b, a) THEN b ELSE a
QMax(a, b) == IF QLt(a, b) THEN b ELSE a
QAbs(a) == <<Abs(a[1]), a[2]>>

\* Math.floor
QFloor(a) == a[1] \div a[2]

\* Truncation toward zero
QTrunc(a) == IF a[1] >= 0 THEN a[1] \div a[2] ELSE -((-a[1]) \div a[2])

\* a % m  (the remainder takes the sign of the dividend)
QRem(a, m) == QSub(a, QInt(m * QTrunc(QDiv(a, QInt(m)))))

(***************************************************************************)
(* String helpers                                                          *)
(***************************************************************************)
HexDigits == <<"0", "1", "2", "3", "4", "5", "6", "7", "8", "9",
               "a", "b", "c", "d", "e", "f">>
UpperHexDigits == <<"0", "1", "2", "3", "4", "5", "6", "7", "8", "9",
                    "A", "B", "C", "D", "E", "F">>

IsHexDigit(c) == \E i \in 1..16 : HexDigits[i] = c \/ UpperHexDigits[i] = c

HexValue(c) == (CHOOSE i \in 1..16 : HexDigits[i] = c \/ UpperHexDigits[i] = c) - 1

IsWhiteSpaceChar(c) == c \in {" ", "\t", "\n", "\r"}

\* Number.prototype.toString(16) of an integer
RECURSIVE ToString16(_)
ToString16(n) ==
  IF n < 0 THEN <<"-">> \o ToString16(-n)
  ELSE IF n < 16 THEN <<HexDigits[n + 1]>>
  ELSE Append(ToString16(n \div 16), HexDigits[(n % 16) + 1])

\* '000000'.substr(0, n)
Zeros(n) == [i \in 1..(IF n < 0 THEN 0 ELSE IF n > 6 THEN 6 ELSE n) |-> "0"]

RECURSIVE SkipWhiteSpace(_)
SkipWhiteSpace(s) ==
  IF s # <<>> /\ IsWhiteSpaceChar(s[1]) THEN SkipWhiteSpace(Tail(s)) ELSE s

\* The longest prefix of hex digits, as a number; acc is the value so far.
RECURSIVE HexPrefix(_, _, _)
HexPrefix(s, acc, seen) ==
  IF s # <<>> /\ IsHexDigit(s[1])
    THEN HexPrefix(Tail(s), acc * 16 + HexValue(s[1]), TRUE)
    ELSE [digits |-> seen, n |-> acc]

\* parseInt(s, 16): leading white space, a sign, an optional 0x, then the
\* longest run of hex digits; whatever follows is ignored.  NaN without digits.
parseInt16(str) ==
  LET s0 == SkipWhiteSpace(str)
      neg == s0 # <<>> /\ s0[1] = "-"
      s1 == IF s0 # <<>> /\ s0[1] \in {"-", "+"} THEN Tail(s0) ELSE s0
      s2 == IF Len(s1) >= 2 /\ s1[1] = "0" /\ s1[2] \in {"x", "X"}
              THEN SubSeq(s1, 3, Len(s1)) ELSE s1
      p == HexPrefix(s2, 0, FALSE)
  IN IF ~p.digits THEN NaN ELSE Num(IF neg THEN -p.n ELSE p.n)

(***************************************************************************)
(* Color                                                                   *)
(***************************************************************************)
Rgb(r, g, b) == [t |-> "rgb", r |-> r, g |-> g, b |-> b]
Rgba(r, g, b, a) == [t |-> "rgba", r |-> r, g |-> g, b |-> b, a |-> a]
Hsv(h, s, v) == [t |-> "hsv", h |-> h, s |-> s, v |-> v]
Throw(e) == [t |-> "throw", v |-> e]

\* Color.decimalToHex without the zero padding.
decimalToHex_NoPad(decimal) ==
  LET d == IF decimal < 0 THEN decimal + 16777215 + 1 ELSE decimal
  IN Str(<<"#">> \o ToString16(d))

decimalToHex(decimal) ==
  LET d == IF decimal < 0 THEN decimal + 16777215 + 1 ELSE decimal
      hex == ToString16(d)
  IN Str(<<"#">> \o Zeros(6 - Len(hex)) \o hex)

\* Color.decimalToRgb without the opaque default for a zero alpha.
decimalToRgb_RawAlpha(decimal) ==
  Rgba(BitAnd(Shr(decimal, 16), 255), BitAnd(Shr(decimal, 8), 255),
       BitAnd(decimal, 255), BitAnd(Shr(decimal, 24), 255))

decimalToRgb(decimal) ==
  LET a == BitAnd(Shr(decimal, 24), 255)
      r == BitAnd(Shr(decimal, 16), 255)
      g == BitAnd(Shr(decimal, 8), 255)
      b == BitAnd(decimal, 255)
  IN Rgba(r, g, b, IF a > 0 THEN a ELSE 255)

hexToRgb(hex0) ==
  LET hex == IF hex0 # <<>> /\ hex0[1] = "#" THEN Tail(hex0) ELSE hex0
      parsed == parseInt16(hex)
  IN IF IsNaN(parsed) THEN VNull
     ELSE IF Len(hex) = 6
       THEN Rgb(BitAnd(Shr(parsed.v, 16), 255),
                BitAnd(Shr(parsed.v, 8), 255),
                BitAnd(parsed.v, 255))
     ELSE IF Len(hex) = 3
       THEN LET r == BitAnd(Shr(parsed.v, 8), 15)
                g == BitAnd(Shr(parsed.v, 4), 15)
                b == BitAnd(parsed.v, 15)
            IN Rgb(Shl(r, 4) + r, Shl(g, 4) + g, Shl(b, 4) + b)
     ELSE VNull

rgbToDecimal(rgb) == Shl(rgb.r, 16) + Shl(rgb.g, 8) + rgb.b

rgbToHex(rgb) == decimalToHex(rgbToDecimal(rgb))

\* rgbToDecimal(null) reads a property of null: a TypeError.
hexToDecimal(hex) ==
  LET rgb == hexToRgb(hex)
  IN IF rgb.t = "null" THEN Throw("TypeError") ELSE Num(rgbToDecimal(rgb))

hsvToRgb(hsv) ==
  LET h0 == QRem(hsv.h, 360)
      h == IF QLt(h0, QInt(0)) THEN QAdd(h0, QInt(360)) ELSE h0
      s == QMax(QInt(0), QMin(hsv.s, QInt(1)))
      v == QMax(QInt(0), QMin(hsv.v, QInt(1)))
      i == QFloor(QDiv(h, QInt(60)))
      f == QSub(QDiv(h, QInt(60)), QInt(i))
      p == QMul(v, QSub(QInt(1), s))
      q == QMul(v, QSub(QInt(1), QMul(s, f)))
      tt == QMul(v, QSub(QInt(1), QMul(s, QSub(QInt(1), f))))
      rgb == IF i = 1 THEN <<q, v, p>>
             ELSE IF i = 2 THEN <<p, v, tt>>
             ELSE IF i = 3 THEN <<p, q, v>>
             ELSE IF i = 4 THEN <<tt, p, v>>
             ELSE IF i = 5 THEN <<v, p, q>>
             ELSE <<v, tt, p>>
  IN Rgb(QFloor(QMul(rgb[1], QInt(255))),
         QFloor(QMul(rgb[2], QInt(255))),
         QFloor(QMul(rgb[3], QInt(255))))

\* Color.rgbToHsv normalising the channels by 256 instead of 255.
rgbToHsv_Scale256(rgb) ==
  LET r == Q(rgb.r, 256)
      g == Q(rgb.g, 256)
      b == Q(rgb.b, 256)
      x == QMin(QMin(r, g), b)
      v == QMax(QMax(r, g), b)
  IN IF x # v
       THEN LET f == IF r = x THEN QSub(g, b) ELSE IF g = x THEN QSub(b, r) ELSE QSub(r, g)
                i == IF r = x THEN 3 ELSE IF g = x THEN 5 ELSE 1
            IN Hsv(QRem(QMul(QSub(QInt(i), QDiv(f, QSub(v, x))), QInt(60)), 360),
                   QDiv(QSub(v, x), v),
                   v)
       ELSE Hsv(QInt(0), QInt(0), v)

rgbToHsv(rgb) ==
  LET r == Q(rgb.r, 255)
      g == Q(rgb.g, 255)
      b == Q(rgb.b, 255)
      x == QMin(QMin(r, g), b)
      v == QMax(QMax(r, g), b)
  IN IF x # v
       THEN LET f == IF r = x THEN QSub(g, b) ELSE IF g = x THEN QSub(b, r) ELSE QSub(r, g)
                i == IF r = x THEN 3 ELSE IF g = x THEN 5 ELSE 1
            IN Hsv(QRem(QMul(QSub(QInt(i), QDiv(f, QSub(v, x))), QInt(60)), 360),
                   QDiv(QSub(v, x), v),
                   v)
       ELSE Hsv(QInt(0), QInt(0), v)

(***************************************************************************)
(* The Color specification: a call on a fresh input, optionally followed   *)
(* by the inverse conversion applied to what it returned (prev keeps the   *)
(* first call).                                                            *)
(***************************************************************************)
MaxHexLen == 6
HueStep == 30
GridN == 10

NibbleSamples == {0, 1, 10, 15}
ByteSamples == {0, 1, 127, 128, 254, 255}
AlphaSamples == {0, 1, 127}
HexAlphabet == {"0", "f", "g", "-"}

Decimals24 ==
  {((((a * 16 + b) * 16 + c) * 16 + d) * 16 + e) * 16 + f :
     a \in NibbleSamples, b \in NibbleSamples, c \in NibbleSamples,
     d \in NibbleSamples, e \in NibbleSamples, f \in NibbleSamples}

RgbInputs == {Rgb(r, g, b) : r \in ByteSamples, g \in ByteSamples, b \in ByteSamples}

Decimals32 ==
  LET pos == {a * 16777216 + rgbToDecimal(c) : a \in AlphaSamples, c \in RgbInputs}
  IN pos \cup {-n : n \in pos}

HexInputs == {pre \o b : pre \in {<<>>, <<"#">>}, b \in SeqsUpTo(HexAlphabet, MaxHexLen)}

HsvInputs ==
  {Hsv(QInt(i * HueStep), Q(j, GridN), Q(k, GridN)) :
     i \in -1..((360 \div HueStep) + 1), j \in -1..(GridN + 1), k \in -1..(GridN + 1)}

ColorInit ==
  /\ heap = <<>> /\ heap0 = <<>>
  /\ arg = NoValue /\ out = NoValue
  /\ call = NoCall /\ prev = NoCall

\* The inputs of a call: fresh ones at the start, or what the call `after`
\* has just returned.
Feed(fresh, after) ==
  IF call = NoCall THEN fresh
  ELSE IF prev = NoCall /\ call.fn = after /\ out.t # "throw" THEN {out}
  ELSE {}

Applied(fn, x, res) ==
  /\ call' = [fn |-> fn]
  /\ arg' = x
  /\ out' = res
  /\ prev' = IF call = NoCall THEN NoCall ELSE [fn |-> call.fn, arg |-> arg, out |-> out]
  /\ UNCHANGED <<heap, heap0>>

CallDecimalToHex ==
  \E x \in Feed({Num(d) : d \in Decimals24 \cup {-1, -16777216, 16777216}}, "rgbToDecimal") :
    Applied("decimalToHex", x, decimalToHex(x.v))

CallDecimalToRgb ==
  \E x \in Feed({Num(d) : d \in Decimals32}, "rgbToDecimal") :
    Applied("decimalToRgb", x, decimalToRgb(x.v))

CallHexToRgb ==
  \E x \in Feed({Str(s) : s \in HexInputs}, "decimalToHex") :
    Applied("hexToRgb", x, hexToRgb(x.v))

CallHexToDecimal ==
  \E x \in Feed({Str(s) : s \in HexInputs}, "decimalToHex") :
    Applied("hexToDecimal", x, hexToDecimal(x.v))

CallRgbToDecimal ==
  \E x \in Feed(RgbInputs, "hsvToRgb") :
    Applied("rgbToDecimal", x, Num(rgbToDecimal(x)))

CallRgbToHex ==
  \E x \in Feed(RgbInputs, "hsvToRgb") :
    Applied("rgbToHex", x, rgbToHex(x))

CallHsvToRgb ==
  \E x \in Feed(HsvInputs, "rgbToHsv") :
    Applied("hsvToRgb", x, hsvToRgb(x))

CallRgbToHsv ==
  \E x \in Feed(RgbInputs, "hsvToRgb") :
    Applied("rgbToHsv", x, rgbToHsv(x))

ColorNext ==
  \/ CallDecimalToHex \/ CallDecimalToRgb \/ CallHexToRgb \/ CallHexToDecimal
  \/ CallRgbToDecimal \/ CallRgbToHex \/ CallHsvToRgb \/ CallRgbToHsv

ColorSpec == ColorInit /\ [][ColorNext]_vars

(***************************************************************************)
(* Color claims                                                            *)
(***************************************************************************)
In24(x) == x.v >= 0 /\ x.v <= 16777215

\* C6: for every integer D in [0, 0xFFFFFF], decimalToHex(D) is '#' followed
\* by exactly 6 hex digits and hexToDecimal(decimalToHex(D)) = D.
C6_HexRoundTrip ==
  /\ (call.fn = "decimalToHex" /\ In24(arg)) =>
       /\ Len(out.v) = 7 /\ out.v[1] = "#"
       /\ \A i \in 2..7 : IsHexDigit(out.v[i])
  /\ (call.fn = "hexToDecimal" /\ prev.fn = "decimalToHex" /\ In24(prev.arg)) =>
       out = prev.arg

\* 0x00a0f1 went to "#00a0f1" and back.
C6_Witness ==
  /\ call.fn = "hexToDecimal" /\ prev.fn = "decimalToHex"
  /\ prev.arg = Num(41201)
  /\ arg = Str(<<"#", "0", "0", "a", "0", "f", "1">>)
  /\ out = Num(41201)

IsByte(n) == n >= 0 /\ n <= 255

StripHash(s) == IF s # <<>> /\ s[1] = "#" THEN Tail(s) ELSE s

\* C8: hexToRgb returns an RGB object only when its input, less one optional
\* leading '#', is exactly 6 or exactly 3 characters, all hex digits; for every
\* other string it returns null.
C8_HexToRgbStrict ==
  call.fn = "hexToRgb" =>
    LET body == StripHash(arg.v)
        wellFormed == Len(body) \in {3, 6} /\ \A i \in 1..Len(body) : IsHexDigit(body[i])
    IN IF wellFormed THEN out.t = "rgb" ELSE out = VNull

Within255(a, b) == QLe(QAbs(QSub(a, b)), Q(1, 255))

InHsvDomain(x) ==
  /\ QLe(QInt(0), x.h) /\ QLt(x.h, QInt(360))
  /\ QLe(QInt(0), x.s) /\ QLe(x.s, QInt(1))
  /\ QLe(QInt(0), x.v) /\ QLe(x.v, QInt(1))

Achromatic(x) == x.s = QInt(0) \/ x.v = QInt(0)

\* C9 as stated: for h in [0,360) and s, v in [0,1], rgbToHsv(hsvToRgb(hsv))
\* recovers h, s and v each within 1/255, except that an achromatic input
\* (s = 0 or v = 0) gives h = 0.
C9_HsvRoundTripAll ==
  (call.fn = "rgbToHsv" /\ prev.fn = "hsvToRgb" /\ InHsvDomain(prev.arg)) =>
    IF Achromatic(prev.arg) THEN out.h = QInt(0)
    ELSE /\ Within255(out.h, prev.arg.h)
         /\ Within255(out.s, prev.arg.s)
         /\ Within255(out.v, prev.arg.v)

\* C9 (amended): for h in [0,360) and s, v in [0,1], rgbToHsv(hsvToRgb(hsv))
\* recovers v within 1/255, and an achromatic input (s = 0 or v = 0) gives
\* h = 0; h and s are not recovered within 1/255 in general.
C9_HsvRoundTripValue ==
  (call.fn = "rgbToHsv" /\ prev.fn = "hsvToRgb" /\ InHsvDomain(prev.arg)) =>
    /\ Within255(out.v, prev.arg.v)
    /\ Achromatic(prev.arg) => out.h = QInt(0)

\* A chromatic colour of half value went through both conversions.
C9_Witness ==
  /\ call.fn = "rgbToHsv" /\ prev.fn = "hsvToRgb"
  /\ prev.arg = Hsv(QInt(30), Q(1, 2), Q(1, 2))
  /\ out.v = Q(127, 255)

(***************************************************************************)
(* Cast                                                                    *)
(***************************************************************************)
UpperLetters == <<"A", "B", "C", "D", "E", "F", "G", "H", "I", "J", "K", "L", "M",
                  "N", "O", "P", "Q", "R", "S", "T", "U", "V", "W", "X", "Y", "Z">>
LowerLetters == <<"a", "b", "c", "d", "e", "f", "g", "h", "i", "j", "k", "l", "m",
                  "n", "o", "p", "q", "r", "s", "t", "u", "v", "w", "x", "y", "z">>

LowerChar(c) ==
  IF \E i \in 1..26 : UpperLetters[i] = c
    THEN LowerLetters[CHOOSE i \in 1..26 : UpperLetters[i] = c]
    ELSE c

\* String.prototype.toLowerCase
toLowerCase(s) == [i \in 1..Len(s) |-> LowerChar(s[i])]

\* Boolean(value)
Boolean(val) ==
  IF val.t = "boolean" THEN val.v
  ELSE IF val.t = "number" THEN ~IsNaN(val) /\ val.v # 0
  ELSE IF val.t = "string" THEN val.v # <<>>
  ELSE ~IsNullish(val)

\* Cast.toBoolean comparing the string itself with 'false', not its lower case.
toBoolean_CaseSensitive(val) ==
  IF val.t = "boolean" THEN val.v
  ELSE IF val.t = "string"
    THEN ~(val.v = <<>> \/ val.v = <<"0">> \/ val.v = <<"f", "a", "l", "s", "e">>)
  ELSE Boolean(val)

toBoolean(val) ==
  IF val.t = "boolean" THEN val.v
  ELSE IF val.t = "string"
    THEN ~(val.v = <<>> \/ val.v = <<"0">>
           \/ toLowerCase(val.v) = <<"f", "a", "l", "s", "e">>)
  ELSE Boolean(val)

(***************************************************************************)
(* Numbers beyond the integers: the two infinities, and finite non-integers *)
(* as exact reduced rationals.  Negative zero is not told apart from zero.  *)
(***************************************************************************)
PosInf == [t |-> "number", k |-> "Infinity", v |-> 1]
NegInf == [t |-> "number", k |-> "Infinity", v |-> -1]
Frac(q) == [t |-> "number", k |-> "fraction", v |-> q]
BigIntV(n) == [t |-> "bigint", v |-> n]

IsFinite(x) == x.k \in {"finite", "fraction"}

\* The rational a finite number stands for, and back.
ToQ(x) == IF x.k = "finite" THEN QInt(x.v) ELSE x.v
NumQ(q) == IF q[2] = 1 THEN Num(q[1]) ELSE Frac(q)

\* -x
Negate(x) ==
  IF x.k = "NaN" THEN NaN
  ELSE IF x.k = "Infinity" THEN [x EXCEPT !.v = -@]
  ELSE LET q == ToQ(x) IN NumQ(<<-q[1], q[2]>>)

\* Math.floor and Math.trunc of a number
MathFloor(x) == IF IsFinite(x) THEN Num(QFloor(ToQ(x))) ELSE x
MathTrunc(x) == IF IsFinite(x) THEN Num(QTrunc(ToQ(x))) ELSE x

(***************************************************************************)
(* String(value) and Number(value)                                         *)
(***************************************************************************)
InfinityChars == <<"I", "n", "f", "i", "n", "i", "t", "y">>
NaNChars == <<"N", "a", "N">>
ObjectObjectChars ==
  <<"[", "o", "b", "j", "e", "c", "t", " ", "O", "b", "j", "e", "c", "t", "]">>
ObjectMapChars ==
  <<"[", "o", "b", "j", "e", "c", "t", " ", "M", "a", "p", "]">>

IsDigit(c) == \E i \in 1..10 : HexDigits[i] = c

Drop(s, n) == SubSeq(s, n + 1, Len(s))

\* The longest prefix of decimal digits.
RECURSIVE DigitRun(_)
DigitRun(s) ==
  IF s # <<>> /\ IsDigit(s[1]) THEN <<s[1]>> \o DigitRun(Tail(s)) ELSE <<>>

\* The value of a run of digits in a base.
RECURSIVE DigitsValue(_, _, _)
DigitsValue(s, base, acc) ==
  IF s = <<>> THEN acc ELSE DigitsValue(Tail(s), base, acc * base + HexValue(s[1]))

RECURSIVE TrimEnd(_)
TrimEnd(s) ==
  IF s # <<>> /\ IsWhiteSpaceChar(s[Len(s)])
    THEN TrimEnd(SubSeq(s, 1, Len(s) - 1)) ELSE s

\* String.prototype.trim
Trim(s) == TrimEnd(SkipWhiteSpace(s))

\* Decimal digits of a natural number.
RECURSIVE NatToString(_)
NatToString(n) ==
  IF n < 10 THEN <<HexDigits[n + 1]>>
  ELSE Append(NatToString(n \div 10), HexDigits[(n % 10) + 1])

\* The digits after the point of n/d, 0 <= n < d, for a terminating expansion.
RECURSIVE FracDigits(_, _)
FracDigits(n, d) ==
  IF n = 0 THEN <<>>
  ELSE <<HexDigits[((n * 10) \div d) + 1]>> \o FracDigits((n * 10) % d, d)

\* Number::toString, for magnitudes that print without an exponent.
NumberToString(x) ==
  IF x.k = "NaN" THEN NaNChars
  ELSE IF x.k = "Infinity"
    THEN (IF x.v < 0 THEN <<"-">> ELSE <<>>) \o InfinityChars
  ELSE LET q == ToQ(x)
           a == QAbs(q)
       IN (IF q[1] < 0 THEN <<"-">> ELSE <<>>)
          \o NatToString(a[1] \div a[2])
          \o (IF a[2] = 1 THEN <<>> ELSE <<".">> \o FracDigits(a[1] % a[2], a[2]))

\* StrUnsignedDecimalLiteral: digits, an optional point and digits, an
\* optional exponent; the whole of u must be consumed.
UnsignedDecimal(u) ==
  LET Literal(ip, fp, hasE, esign, ed, rest) ==
        IF (ip = <<>> /\ fp = <<>>) \/ (hasE /\ ed = <<>>) \/ rest # <<>>
          THEN NaN
          ELSE NumQ(QMul(Q(DigitsValue(ip \o fp, 10, 0), 10 ^ Len(fp)),
                         IF esign = "-" THEN Q(1, 10 ^ DigitsValue(ed, 10, 0))
                         ELSE QInt(10 ^ DigitsValue(ed, 10, 0))))
      ExponentRest(ip, fp, esign, ed, r4) ==
        Literal(ip, fp, TRUE, esign, ed, Drop(r4, Len(ed)))
      ExponentDigits(ip, fp, esign, r4) ==
        ExponentRest(ip, fp, esign, DigitRun(r4), r4)
      ExponentSign(ip, fp, r3) ==
        IF r3 # <<>> /\ r3[1] \in {"+", "-"}
          THEN ExponentDigits(ip, fp, r3[1], Tail(r3))
          ELSE ExponentDigits(ip, fp, "", r3)
      Exponent(ip, fp, r2) ==
        IF r2 # <<>> /\ r2[1] \in {"e", "E"}
          THEN ExponentSign(ip, fp, Tail(r2))
          ELSE Literal(ip, fp, FALSE, "", <<>>, r2)
      FractionRest(ip, fp, r) == Exponent(ip, fp, Drop(r, Len(fp)))
      Fraction(ip, r1) ==
        IF r1 # <<>> /\ r1[1] = "."
          THEN FractionRest(ip, DigitRun(Tail(r1)), Tail(r1))
          ELSE Exponent(ip, <<>>, r1)
      Integer(ip) == Fraction(ip, Drop(u, Len(ip)))
  IN Integer(DigitRun(u))

\* The radix a 0x / 0o / 0b prefix announces (0: none).
RadixOf(c) ==
  IF c \in {"x", "X"} THEN 16
  ELSE IF c \in {"o", "O"} THEN 8
  ELSE IF c \in {"b", "B"} THEN 2
  ELSE 0

\* StringToNumber: surrounding white space is dropped; the empty string is 0;
\* an unsigned radix literal, a signed Infinity or a signed decimal literal is
\* its value; anything else is NaN.
StringToNumber(s) ==
  LET Signed(sign, m) == IF sign = "-" THEN Negate(m) ELSE m
      Magnitude(u) == IF u = InfinityChars THEN PosInf ELSE UnsignedDecimal(u)
      Radix(t, radix) ==
        IF \A i \in 3..Len(t) : IsHexDigit(t[i]) /\ HexValue(t[i]) < radix
          THEN Num(DigitsValue(Drop(t, 2), radix, 0))
          ELSE NaN
      Trimmed(t) ==
        IF t = <<>> THEN Num(0)
        ELSE IF Len(t) > 2 /\ t[1] = "0" /\ RadixOf(t[2]) # 0
          THEN Radix(t, RadixOf(t[2]))
        ELSE Signed(IF t[1] \in {"+", "-"} THEN t[1] ELSE "",
                    Magnitude(IF t[1] \in {"+", "-"} THEN Tail(t) ELSE t))
  IN Trimmed(Trim(s))

\* String(value).  An array joins the strings of its elements (null and
\* undefined give the empty string); a plain object is "[object Object]"; an
\* object without a prototype has no toString and no valueOf, so converting it
\* raises a TypeError.
RECURSIVE ToStringJS(_, _)
RECURSIVE JoinItems(_, _, _, _)

JoinItems(h, items, i, acc) ==
  LET Joined(el) ==
        IF el.t = "throw" THEN el
        ELSE JoinItems(h, items, i + 1,
                       acc \o (IF i > 1 THEN <<",">> ELSE <<>>) \o el.v)
  IN IF i > Len(items) THEN Str(acc)
     ELSE Joined(IF IsNullish(items[i]) THEN Str(<<>>) ELSE ToStringJS(h, items[i]))

ToStringJS(h, val) ==
  IF val.t = "string" THEN val
  ELSE IF val.t = "number" THEN Str(NumberToString(val))
  ELSE IF val.t = "bigint" THEN Str(NumberToString(Num(val.v)))
  ELSE IF val.t = "boolean"
    THEN Str(IF val.v THEN <<"t", "r", "u", "e">> ELSE <<"f", "a", "l", "s", "e">>)
  ELSE IF val.t = "null" THEN Str(<<"n", "u", "l", "l">>)
  ELSE IF val.t = "undefined"
    THEN Str(<<"u", "n", "d", "e", "f", "i", "n", "e", "d">>)
  ELSE IF h[val.v].proto = "null" THEN Throw("TypeError")
  ELSE IF h[val.v].kind = "array" THEN JoinItems(h, h[val.v].items, 1, <<>>)
  ELSE IF h[val.v].kind = "map" THEN Str(ObjectMapChars)
  ELSE Str(ObjectObjectChars)

\* Number(value): a number or the exception raised.
ToNumberJS(h, val) ==
  LET OfPrimitive(p) == IF p.t = "throw" THEN p ELSE StringToNumber(p.v)
  IN IF val.t = "number" THEN val
     ELSE IF val.t = "bigint" THEN Num(val.v)
     ELSE IF val.t = "boolean" THEN Num(IF val.v THEN 1 ELSE 0)
     ELSE IF val.t = "null" THEN Num(0)
     ELSE IF val.t = "undefined" THEN NaN
     ELSE OfPrimitive(ToStringJS(h, val))

(***************************************************************************)
(* Cast.compare                                                            *)
(***************************************************************************)
\* The characters with codes 32..126, in code order (code 96 by name).
Ascii ==
  <<" ", "!", "\"", "#", "$", "%", "&", "'", "(", ")", "*", "+",
    ",", "-", ".", "/", "0", "1", "2", "3", "4", "5", "6", "7",
    "8", "9", ":", ";", "<", "=", ">", "?", "@", "A", "B", "C",
    "D", "E", "F", "G", "H", "I", "J", "K", "L", "M", "N", "O",
    "P", "Q", "R", "S", "T", "U", "V", "W", "X", "Y", "Z", "[",
    "\\", "]", "^", "_", "<grave>", "a", "b", "c", "d", "e", "f", "g",
    "h", "i", "j", "k", "l", "m", "n", "o", "p", "q", "r", "s",
    "t", "u", "v", "w", "x", "y", "z", "{", "|", "}", "~">>

\* String.prototype.charCodeAt, for tab, line feed, carriage return and the
\* characters of Ascii.
CharCode(c) ==
  IF c = "\t" THEN 9
  ELSE IF c = "\n" THEN 10
  ELSE IF c = "\r" THEN 13
  ELSE 31 + (CHOOSE i \in 1..Len(Ascii) : Ascii[i] = c)

\* s1 < s2 on strings: by code unit, a proper prefix is smaller.
RECURSIVE StrLess(_, _)
StrLess(a, b) ==
  IF b = <<>> THEN FALSE
  ELSE IF a = <<>> THEN TRUE
  ELSE IF CharCode(a[1]) < CharCode(b[1]) THEN TRUE
  ELSE IF CharCode(a[1]) > CharCode(b[1]) THEN FALSE
  ELSE StrLess(Tail(a), Tail(b))

\* n1 - n2 on numbers
NumSub(n1, n2) ==
  IF IsNaN(n1) \/ IsNaN(n2) THEN NaN
  ELSE IF n1.k = "Infinity"
    THEN IF n2.k = "Infinity" /\ n2.v = n1.v THEN NaN ELSE n1
  ELSE IF n2.k = "Infinity" THEN Negate(n2)
  ELSE NumQ(QSub(ToQ(n1), ToQ(n2)))

\* n === 0
IsZero(n) == n.k = "finite" /\ n.v = 0

\* Cast.isNotActuallyZero looking for the character '0' only.
isNotActuallyZero_NoTab(val) ==
  IF val.t # "string" THEN FALSE
  ELSE ~(\E i \in 1..Len(val.v) : CharCode(val.v[i]) = 48)

\* The loop returns false at the first '0' or tab, and true when it finds none.
isNotActuallyZero(val) ==
  IF val.t # "string" THEN FALSE
  ELSE ~(\E i \in 1..Len(val.v) : CharCode(val.v[i]) = 48 \/ CharCode(val.v[i]) = 9)

\* The string branch of Cast.compare.
compareStrings(h, v1, v2) ==
  LET Ordered(s1, s2) ==
        IF StrLess(s1, s2) THEN Num(-1)
        ELSE IF StrLess(s2, s1) THEN Num(1)
        ELSE Num(0)
      OfStrings(p1, p2) ==
        IF p1.t = "throw" THEN p1
        ELSE IF p2.t = "throw" THEN p2
        ELSE Ordered(toLowerCase(p1.v), toLowerCase(p2.v))
  IN OfStrings(ToStringJS(h, v1), ToStringJS(h, v2))

\* Cast.compare without the special case of equal infinities.
compare_NoInfinityCase(h, v1, v2) ==
  LET Difference(n1, n2) ==
        IF IsNaN(n1) \/ IsNaN(n2) THEN compareStrings(h, v1, v2)
        ELSE NumSub(n1, n2)
      Marked(m1, m2, z1) ==
        Difference(IF z1 THEN NaN ELSE m1,
                   IF ~z1 /\ IsZero(m2) /\ isNotActuallyZero(v2) THEN NaN ELSE m2)
      OfNumbers(m1, m2) ==
        IF m1.t = "throw" THEN m1
        ELSE IF m2.t = "throw" THEN m2
        ELSE Marked(m1, m2, IsZero(m1) /\ isNotActuallyZero(v1))
  IN OfNumbers(ToNumberJS(h, v1), ToNumberJS(h, v2))

compare(h, v1, v2) ==
  LET Difference(n1, n2) ==
        IF IsNaN(n1) \/ IsNaN(n2) THEN compareStrings(h, v1, v2)
        ELSE IF (n1 = PosInf /\ n2 = PosInf) \/ (n1 = NegInf /\ n2 = NegInf)
          THEN Num(0)
        ELSE NumSub(n1, n2)
      Marked(m1, m2, z1) ==
        Difference(IF z1 THEN NaN ELSE m1,
                   IF ~z1 /\ IsZero(m2) /\ isNotActuallyZero(v2) THEN NaN ELSE m2)
      OfNumbers(m1, m2) ==
        IF m1.t = "throw" THEN m1
        ELSE IF m2.t = "throw" THEN m2
        ELSE Marked(m1, m2, IsZero(m1) /\ isNotActuallyZero(v1))
  IN OfNumbers(ToNumberJS(h, v1), ToNumberJS(h, v2))

(***************************************************************************)
(* Cast.toNumber, Cast.isInt, Cast.toBigInt, Cast.toListIndex              *)
(***************************************************************************)
\* A number, or the exception Number(value) raised.
toNumber(h, val) ==
  LET OrZero(n) ==
        IF n.t = "throw" THEN n
        ELSE IF IsNaN(n) THEN Num(0)
        ELSE n
  IN IF val.t = "number" THEN (IF IsNaN(val) THEN Num(0) ELSE val)
     ELSE OrZero(ToNumberJS(h, val))

isInt(val) ==
  IF val.t = "number"
    THEN IF IsNaN(val) THEN TRUE ELSE val = MathFloor(val)
  ELSE IF val.t = "boolean" THEN TRUE
  ELSE IF val.t = "string" THEN ~(\E i \in 1..Len(val.v) : val.v[i] = ".")
  ELSE FALSE

isBigInt(val) == val.t = "bigint" \/ isInt(val)

\* StringToBigInt: surrounding white space is dropped; the empty string is 0n;
\* an unsigned radix literal or a signed run of decimal digits is its value;
\* anything else (a point, an exponent, Infinity) is a SyntaxError.
StringToBigInt(s) ==
  LET Decimal(sign, u) ==
        IF u # <<>> /\ DigitRun(u) = u
          THEN BigIntV((IF sign = "-" THEN -1 ELSE 1) * DigitsValue(u, 10, 0))
          ELSE Throw("SyntaxError")
      Radix(t, radix) ==
        IF \A i \in 3..Len(t) : IsHexDigit(t[i]) /\ HexValue(t[i]) < radix
          THEN BigIntV(DigitsValue(Drop(t, 2), radix, 0))
          ELSE Throw("SyntaxError")
      Trimmed(t) ==
        IF t = <<>> THEN BigIntV(0)
        ELSE IF Len(t) > 2 /\ t[1] = "0" /\ RadixOf(t[2]) # 0
          THEN Radix(t, RadixOf(t[2]))
        ELSE Decimal(IF t[1] \in {"+", "-"} THEN t[1] ELSE "",
                     IF t[1] \in {"+", "-"} THEN Tail(t) ELSE t)
  IN Trimmed(Trim(s))

\* BigInt(value)
BigIntOf(h, val) ==
  LET OfPrimitive(p) == IF p.t = "throw" THEN p ELSE StringToBigInt(p.v)
  IN IF val.t = "bigint" THEN val
     ELSE IF val.t = "number"
       THEN IF val.k = "finite" THEN BigIntV(val.v) ELSE Throw("RangeError")
     ELSE IF val.t = "boolean" THEN BigIntV(IF val.v THEN 1 ELSE 0)
     ELSE IF IsNullish(val) THEN Throw("TypeError")
     ELSE OfPrimitive(ToStringJS(h, val))

\* A bigint, or the exception raised.
toBigInt(h, val) ==
  LET Truncated(n) ==
        IF n.t = "throw" THEN n
        ELSE IF IsNaN(n) THEN BigIntV(0)
        ELSE BigIntOf(h, IF ~isBigInt(val) THEN MathTrunc(n) ELSE val)
  IN IF val.t = "bigint" THEN val
     ELSE Truncated(ToNumberJS(h, val))

LIST_INVALID == Str(<<"I", "N", "V", "A", "L", "I", "D">>)
LIST_ALL == Str(<<"A", "L", "L">>)

\* a < b on numbers that are not NaN
NumLess(a, b) ==
  IF a.k = "Infinity" THEN a.v < 0 /\ b # a
  ELSE IF b.k = "Infinity" THEN b.v > 0
  ELSE QLt(ToQ(a), ToQ(b))

\* The set of results Cast.toListIndex can give: Math.random() is any number in
\* [0, 1), so 'random' and 'any' give any of 1..length.
\* The words are strings, so the test typeof index !== 'number' that guards
\* them in the code changes nothing for a number.
toListIndex(h, index, length, acceptAll) ==
  LET InRange(floored) ==
        IF NumLess(floored, Num(1)) \/ NumLess(Num(length), floored)
          THEN {LIST_INVALID}
          ELSE {floored}
      Floored(n) == IF n.t = "throw" THEN {n} ELSE InRange(MathFloor(n))
  IN IF index = Str(<<"a", "l", "l">>)
       THEN {IF acceptAll THEN LIST_ALL ELSE LIST_INVALID}
     ELSE IF index = Str(<<"l", "a", "s", "t">>)
       THEN {IF length > 0 THEN Num(length) ELSE LIST_INVALID}
     ELSE IF index \in {Str(<<"r", "a", "n", "d", "o", "m">>), Str(<<"a", "n", "y">>)}
       THEN IF length > 0 THEN {Num(1 + r) : r \in 0..(length - 1)}
                          ELSE {LIST_INVALID}
     ELSE Floored(toNumber(h, index))

(***************************************************************************)
(* Cast.asNumberedItem.  The optional list of valid options is undefined   *)
(* or List(items), items being strings.                                    *)
(***************************************************************************)
List(items) == [t |-> "list", items |-> items]

\* valid[x]: the element at a canonical index, undefined anywhere else.
ElementAt(valid, x) ==
  IF x.t = "number" /\ x.k = "finite" /\ x.v >= 0 /\ x.v < Len(valid.items)
    THEN valid.items[x.v + 1]
    ELSE VUndef

\* (1 + count || 1)
Modulus(count) == IF 1 + count = 0 THEN 1 ELSE 1 + count

\* ((x % m) || 1) for a number x and an integer m other than 0
WrapOr1(x, m) ==
  LET OrOne(r) == IF r[1] = 0 THEN Num(1) ELSE NumQ(r)
  IN IF ~IsFinite(x) THEN Num(1) ELSE OrOne(QRem(ToQ(x), m))

\* value.match(/^\([0-9]+\) ?/): the digits between the parentheses, or the
\* empty sequence when the string does not match.
NumberedPrefix(s) ==
  LET Closed(ds) ==
        IF ds # <<>> /\ Len(s) >= Len(ds) + 2 /\ s[Len(ds) + 2] = ")" THEN ds ELSE <<>>
  IN Closed(IF s # <<>> /\ s[1] = "(" THEN DigitRun(Tail(s)) ELSE <<>>)

\* A string, or the exception raised.
asNumberedItem(h, val, count0, valid) ==
  LET Checked(wrapped) ==
        IF IsNullish(valid) THEN Str(NumberToString(wrapped))
        ELSE IF IsNullish(ElementAt(valid, wrapped)) THEN Str(<<"1">>)
        ELSE Str(NumberToString(wrapped))
      Counted(count) == Checked(WrapOr1(val, Modulus(count)))
      Item(lower, ds, n) ==
        IF lower = <<>> \/ lower[1] # "(" THEN Str(lower)
        ELSE IF ds # <<>>
          THEN IF IsNullish(valid) THEN Str(NumberToString(n))
               ELSE IF IsNullish(ElementAt(valid, StringToNumber(lower)))
                 THEN Str(<<"1">>)
               ELSE Str(NumberToString(n))
        ELSE IF ~IsNullish(valid)
                /\ ~(\E i \in 1..Len(valid.items) : valid.items[i] = Str(lower))
          THEN Str(<<"1">>)
        ELSE Str(lower)
      Wrapped(parsed) ==
        IF ~IsNullish(count0) /\ count0.v # 0
          THEN WrapOr1(parsed, Modulus(count0.v))
          ELSE parsed
      Prefixed(lower, ds) == Item(lower, ds, Wrapped(Num(DigitsValue(ds, 10, 0))))
      Lowered(lower) == Prefixed(lower, NumberedPrefix(lower))
      OfString(p) == IF p.t = "throw" THEN p ELSE Lowered(toLowerCase(p.v))
  IN IF val.t = "number"
       THEN Counted(IF ~IsNullish(count0) THEN count0.v
                    ELSE IF IsNullish(valid) THEN 0
                    ELSE Len(valid.items))
       ELSE OfString(ToStringJS(h, val))

(***************************************************************************)
(* Cast.toObjectLike, Cast.toObject, Cast.toArray.  Each is written as one *)
(* invocation (a step that either returns or makes the next call), and as  *)
(* the whole call obtained by following the steps.                         *)
(***************************************************************************)
\* nullAssign ? Object.create(null) : {}
EmptyObject(h, nullAssign) ==
  New(h, "object", IF nullAssign THEN "null" ELSE "Object.prototype", <<>>)

\* typeof value === 'object'
IsObjectType(val) == val.t \in {"null", "ref"}

\* What an invocation does with its result: return it, or call `to` on it.
Return(r) == [to |-> "return", h |-> r.h, v |-> r.v]
CallNext(to, r) == [to |-> to, h |-> r.h, v |-> r.v]

\* JSON.parse(value) without a reviver, with the exception it may raise.
JSONparsePlain(h, toks) ==
  LET Outcome(p) ==
        IF p.ok THEN Ret(p) ELSE [h |-> h, v |-> NoValue, exc |-> "SyntaxError"]
  IN Outcome(ParseText(toks, h))

\* Cast.toObjectLike handing the text itself to Sanitizer.parseJSON as the
\* default, instead of ''.
toObjectLikeStep_DefaultIsValue(h, val, noBad0, nullAssign0) ==
  LET Parsed(nullAssign, parsed) ==
        IF parsed.exc # "none"
          THEN CallNext("toObjectLike", EmptyObject(h, nullAssign))
          ELSE CallNext("toObjectLike", R(parsed.h, parsed.v))
      Invocation(noBad, nullAssign) ==
        IF IsNullish(val) /\ noBad THEN Return(EmptyObject(h, nullAssign))
        ELSE IF IsObjectType(val)
          THEN IF noBad THEN Return(value(h, val, Str(<<>>), Bool(nullAssign)))
                        ELSE Return(R(h, val))
        ELSE IF val.t # "string" \/ val.v = <<>>
          THEN Return(EmptyObject(h, nullAssign))
        ELSE Parsed(nullAssign,
                    IF noBad THEN parseJSON(h, val, val, Bool(nullAssign))
                             ELSE JSONparsePlain(h, val.v))
  IN Invocation(Truthy(Coalesce(noBad0, Bool(FALSE))),
                Truthy(Coalesce(nullAssign0, Bool(FALSE))))

\* One invocation of Cast.toObjectLike.
toObjectLikeStep(h, val, noBad0, nullAssign0) ==
  LET Parsed(nullAssign, parsed) ==
        IF parsed.exc # "none"
          THEN CallNext("toObjectLike", EmptyObject(h, nullAssign))
          ELSE CallNext("toObjectLike", R(parsed.h, parsed.v))
      Invocation(noBad, nullAssign) ==
        IF IsNullish(val) /\ noBad THEN Return(EmptyObject(h, nullAssign))
        ELSE IF IsObjectType(val)
          THEN IF noBad THEN Return(value(h, val, Str(<<>>), Bool(nullAssign)))
                        ELSE Return(R(h, val))
        ELSE IF val.t # "string" \/ val.v = <<>>
          THEN Return(EmptyObject(h, nullAssign))
        ELSE Parsed(nullAssign,
                    IF noBad THEN parseJSON(h, val, Str(<<>>), Bool(nullAssign))
                             ELSE JSONparsePlain(h, val.v))
  IN Invocation(Truthy(Coalesce(noBad0, Bool(FALSE))),
                Truthy(Coalesce(nullAssign0, Bool(FALSE))))

RECURSIVE toObjectLike(_, _, _, _)
toObjectLike(h, val, noBad, nullAssign) ==
  LET Follow(s) ==
        IF s.to = "return" THEN R(s.h, s.v)
        ELSE toObjectLike(s.h, s.v, noBad, nullAssign)
  IN Follow(toObjectLikeStep(h, val, noBad, nullAssign))

\* One invocation of Cast.toObject.
toObjectStep(h, val) ==
  IF IsObjectType(val)
    THEN IF IsArray(h, val) \/ IsNullish(val)
           THEN Return(New(h, "object", "null", <<>>))
           ELSE Return(object(h, val, Str(<<>>), Bool(TRUE)))
    ELSE CallNext("toObjectLike", R(h, val))

RECURSIVE toObject(_, _)
toObject(h, val) ==
  LET Again(r) == toObject(r.h, r.v)
      Follow(s) ==
        IF s.to = "return" THEN R(s.h, s.v)
        ELSE Again(toObjectLike(s.h, s.v, Bool(TRUE), Bool(TRUE)))
  IN Follow(toObjectStep(h, val))

\* The [key, value] arrays of the entries of a Map, then the array of them.
RECURSIVE MapEntries(_, _, _, _)
MapEntries(h, items, i, acc) ==
  LET Added(e) == MapEntries(e.h, items, i + 1, Append(acc, e.v))
  IN IF i > Len(items) THEN New(h, "array", "Array.prototype", acc)
     ELSE Added(New(h, "array", "Array.prototype", <<items[i].k, items[i].v>>))

\* Array.from(value) for an object that is not an array: the entries of a
\* Map; otherwise the elements 0 .. length - 1 of an array-like (length
\* converted to a number, NaN and negatives counting as 0; an infinite length
\* is a RangeError, an unconvertible one a TypeError).
ArrayFrom(h, val) ==
  LET Elements(o, n) ==
        Ret(New(h, "array", "Array.prototype",
                [i \in 1..n |-> GetProp(o, NatToString(i - 1))]))
      ArrayLike(o, len) ==
        IF len.t = "throw" THEN [h |-> h, v |-> NoValue, exc |-> len.v]
        ELSE IF len = PosInf THEN [h |-> h, v |-> NoValue, exc |-> "RangeError"]
        ELSE Elements(o, IF IsNaN(len) \/ NumLess(len, Num(1)) THEN 0
                         ELSE QTrunc(ToQ(len)))
      From(o) ==
        IF o.kind = "map" THEN Ret(MapEntries(h, o.items, 1, <<>>))
        ELSE ArrayLike(o, ToNumberJS(h, GetProp(o, <<"length">>)))
  IN From(h[val.v])

\* One invocation of Cast.toArray.
toArrayStep(h, val) ==
  LET Copied(r) ==
        IF r.exc # "none"
          THEN CallNext("toArray", New(h, "array", "Array.prototype", <<>>))
          ELSE CallNext("toArray", R(r.h, r.v))
  IN IF IsArray(h, val) THEN Return(array(h, val, Str(<<>>), VUndef))
     ELSE IF val.t = "ref" THEN Copied(ArrayFrom(h, val))
     ELSE CallNext("toObjectLike", R(h, val))

RECURSIVE toArray(_, _)
toArray(h, val) ==
  LET Again(r) == toArray(r.h, r.v)
      Follow(s) ==
        IF s.to = "return" THEN R(s.h, s.v)
        ELSE IF s.to = "toArray" THEN toArray(s.h, s.v)
        ELSE Again(toObjectLike(s.h, s.v, Bool(TRUE), Bool(TRUE)))
  IN Follow(toArrayStep(h, val))

(***************************************************************************)
(* The Cast specification: one call on one input, and for compare a second  *)
(* call with the operands swapped.  The heap holds the non-primitive       *)
(* inputs; Ref(1) is a plain empty object.                                 *)
(***************************************************************************)
MaxStrLen == 3

StrAlphabet == {"0", ".", " ", "f", "F"}

\* The spellings of "false" with each letter in either case or replaced by "0".
FalseLike ==
  {<<a, b, c, d, e>> : a \in {"f", "F", "0"}, b \in {"a", "A", "0"},
     c \in {"l", "L", "0"}, d \in {"s", "S", "0"}, e \in {"e", "E", "0"}}

CastStrings == SeqsUpTo(StrAlphabet, MaxStrLen) \cup FalseLike

CastInputs ==
  {Str(s) : s \in CastStrings}
  \cup {Bool(TRUE), Bool(FALSE)}
  \cup {Num(0), Num(1), Num(-1), NaN}
  \cup {VNull, VUndef, Ref(1)}

\* The objects a call may be handed: {}, Object.create(null), [], [1, null],
\* the array-like {length: 1, 0: 'a'}, {a: null} and new Map([['a', 1]]).
CastHeap ==
  <<[kind |-> "object", proto |-> "Object.prototype", items |-> <<>>],
    [kind |-> "object", proto |-> "null", items |-> <<>>],
    [kind |-> "array", proto |-> "Array.prototype", items |-> <<>>],
    [kind |-> "array", proto |-> "Array.prototype", items |-> <<Num(1), VNull>>],
    [kind |-> "object", proto |-> "Object.prototype",
     items |-> <<[k |-> <<"length">>, v |-> Num(1)], [k |-> <<"0">>, v |-> Str(<<"a">>)]>>],
    [kind |-> "object", proto |-> "Object.prototype",
     items |-> <<[k |-> <<"a">>, v |-> VNull]>>],
    [kind |-> "map", proto |-> "Map.prototype",
     items |-> <<[k |-> Str(<<"a">>), v |-> Num(1)]>>]>>

CastRefs == {Ref(a) : a \in 1..Len(CastHeap)}

CastInit ==
  /\ heap = CastHeap
  /\ heap0 = heap
  /\ arg = NoValue /\ out = NoValue
  /\ call = NoCall /\ prev = NoCall

CallToBoolean ==
  /\ call = NoCall
  /\ \E x \in CastInputs : Applied("toBoolean", x, Bool(toBoolean(x)))

\* The operands of compare.
MaxCmpLen == 2

CmpAlphabet == {"0", "1", "\t", " ", ".", "-", "a", "A"}

CmpWords ==
  {InfinityChars, <<"-">> \o InfinityChars, NaNChars, <<"1", "e", "2">>,
   <<"1", "0", "0">>, <<"a", "b", "c">>, <<"A", "B", "C">>, <<"\t", "0", "\t">>,
   <<"0", "\t", "0">>, <<"t", "r", "u", "e">>, <<"n", "u", "l", "l">>}

CmpPrimitives ==
  {Str(s) : s \in SeqsUpTo(CmpAlphabet, MaxCmpLen) \cup CmpWords}
  \cup {Num(0), Num(1), Num(-1), Num(100), Frac(<<1, 2>>), NaN, PosInf, NegInf}
  \cup {Bool(TRUE), Bool(FALSE), VNull, VUndef}

CmpInputs == CmpPrimitives \cup {Ref(1), Ref(2)}

Pair(a, b) == [t |-> "pair", a |-> a, b |-> b]

CallCompare ==
  /\ call = NoCall
  /\ \E v1 \in CmpInputs, v2 \in CmpInputs :
       Applied("compare", Pair(v1, v2), compare(heap, v1, v2))

\* compare(v2, v1) after compare(v1, v2)
CallCompareSwapped ==
  /\ call.fn = "compare" /\ prev = NoCall
  /\ Applied("compare", Pair(arg.b, arg.a), compare(heap, arg.b, arg.a))

\* The values handed to toNumber, toBigInt and toListIndex.
NumAlphabet == {"0", "1", "2", ".", "-", " ", "\t", "a"}

NumWords ==
  {InfinityChars, <<"-">> \o InfinityChars, <<"1", "e", "2">>, <<"1", "e", "-", "1">>,
   <<"0", "x", "1", "f">>, <<"a", "l", "l">>, <<"A", "L", "L">>, <<"l", "a", "s", "t">>,
   <<"r", "a", "n", "d", "o", "m">>, <<"a", "n", "y">>}

ValueInputs ==
  {Str(s) : s \in SeqsUpTo(NumAlphabet, MaxStrLen) \cup NumWords}
  \cup {Num(0), Num(1), Num(-1), Num(3), Frac(<<3, 2>>), Frac(<<-3, 2>>),
        Frac(<<5, 2>>), NaN, PosInf, NegInf}
  \cup {Bool(TRUE), Bool(FALSE), VNull, VUndef, BigIntV(0), BigIntV(7)}
  \cup CastRefs

CallToNumber ==
  /\ call = NoCall
  /\ \E x \in ValueInputs : Applied("toNumber", x, toNumber(heap, x))

CallToBigInt ==
  /\ call = NoCall
  /\ \E x \in ValueInputs : Applied("toBigInt", x, toBigInt(heap, x))

MaxListLen == 3

IndexArgs(index, length, acceptAll) ==
  [t |-> "index", index |-> index, length |-> length, acceptAll |-> acceptAll]

CallToListIndex ==
  /\ call = NoCall
  /\ \E x \in ValueInputs, length \in 0..MaxListLen, acceptAll \in BOOLEAN :
       \E res \in toListIndex(heap, x, length, acceptAll) :
         Applied("toListIndex", IndexArgs(x, length, acceptAll), res)

\* The arguments of asNumberedItem.
MaxItem == 5
MaxCount == 3

NumberedStrings ==
  {<<"(">> \o NatToString(n) \o <<")">> \o rest :
     n \in 0..MaxItem, rest \in {<<>>, <<" ">>, <<" ", "B">>, <<"b">>}}
  \cup {<<>>, <<"(">>, <<"(", ")">>, <<"(", "1">>, <<"(", "b">>, <<"(", "b", ")">>,
        <<"a">>, <<"B">>, <<"1">>}

NumberedValues ==
  {Str(s) : s \in NumberedStrings}
  \cup {Num(n) : n \in 0..MaxItem}
  \cup {Num(-3), Frac(<<3, 2>>), NaN, PosInf}

Counts == {VUndef} \cup {Num(c) : c \in -1..MaxCount}

Options == <<Str(<<"a">>), Str(<<"b">>), Str(<<"c">>), Str(<<"d">>)>>

ValidLists == {VUndef} \cup {List(SubSeq(Options, 1, k)) : k \in 0..Len(Options)}

ItemArgs(val, count, valid) ==
  [t |-> "item", value |-> val, count |-> count, valid |-> valid]

CallAsNumberedItem ==
  /\ call = NoCall
  /\ \E x \in NumberedValues, count \in Counts, valid \in ValidLists :
       Applied("asNumberedItem", ItemArgs(x, count, valid),
               asNumberedItem(heap, x, count, valid))

\* asNumberedItem(n, count, valid) after asNumberedItem('(n)...', count, valid)
CallAsNumberedItemNumber ==
  /\ call.fn = "asNumberedItem" /\ prev = NoCall
  /\ arg.value.t = "string" /\ NumberedPrefix(arg.value.v) # <<>>
  /\ LET n == Num(DigitsValue(NumberedPrefix(arg.value.v), 10, 0))
     IN Applied("asNumberedItem", ItemArgs(n, arg.count, arg.valid),
                asNumberedItem(heap, n, arg.count, arg.valid))

\* The values handed to toObject and toArray: the objects of the heap,
\* primitives, and texts.
MaxCastText == 3

TextTokens ==
  {"[", "]", "{", "}", ",", ":", TokNull, TokOne, TokStr, TokStr2, TokStr3, TokStrArr}

TextWords ==
  {<<"{", TokStr, ":", TokNull, "}">>, <<"{", TokStr, ":", "[", TokNull, "]", "}">>,
   <<"[", TokOne, ",", TokNull, "]">>, <<"[", "[", TokNull, "]", "]">>, <<"a">>}

Texts == {Str(s) : s \in SeqsUpTo(TextTokens, MaxCastText) \cup TextWords}

ContainerInputs ==
  Texts \cup CastRefs \cup {VNull, VUndef, Num(1), NaN, Bool(TRUE), Bool(FALSE)}

\* A call that allocates or mutates: the heap after it and its result.
AppliedHeap(fn, x, r) ==
  /\ call' = [fn |-> fn]
  /\ arg' = x
  /\ out' = r.v
  /\ heap' = r.h
  /\ UNCHANGED <<heap0, prev>>

CallToObject ==
  /\ call = NoCall
  /\ \E x \in ContainerInputs : AppliedHeap("toObject", x, toObject(heap, x))

CallToArray ==
  /\ call = NoCall
  /\ \E x \in ContainerInputs : AppliedHeap("toArray", x, toArray(heap, x))

CastNext ==
  \/ CallToObject
  \/ CallToArray
  \/ CallToBoolean
  \/ CallCompare
  \/ CallCompareSwapped
  \/ CallToNumber
  \/ CallToBigInt
  \/ CallToListIndex
  \/ CallAsNumberedItem
  \/ CallAsNumberedItemNumber

CastSpec == CastInit /\ [][CastNext]_vars

(***************************************************************************)
(* The recursion of the container coercions, one invocation per step.      *)
(* call.fn is the entry point and its flags, call.at the function being    *)
(* invoked ("done" once the entry point has returned), out the value it is *)
(* invoked on (at the end, the result), call.calls the number of           *)
(* invocations so far, counted up to MaxCalls.                             *)
(***************************************************************************)
MaxCalls == 8

Entries ==
  {[fn |-> "toObjectLike", at |-> "toObjectLike", noBad |-> nb, nullAssign |-> na,
    calls |-> 1] : nb \in {VUndef, Bool(TRUE)}, na \in {VUndef, Bool(TRUE)}}
  \cup {[fn |-> f, at |-> f, noBad |-> Bool(TRUE), nullAssign |-> Bool(TRUE),
         calls |-> 1] : f \in {"toObject", "toArray"}}

RecInit ==
  /\ heap = CastHeap /\ heap0 = CastHeap
  /\ arg = NoValue /\ out = NoValue
  /\ call = NoCall /\ prev = NoCall

\* An entry point is called on a value.
RecBegin ==
  /\ call = NoCall
  /\ \E x \in ContainerInputs, e \in Entries :
       arg' = x /\ out' = x /\ call' = e
  /\ UNCHANGED <<heap, heap0, prev>>

\* The invocation at call.at did s: it returned to its caller, or called s.to.
Stepped(s, caller) ==
  /\ heap' = s.h
  /\ out' = s.v
  /\ call' = [call EXCEPT
                !.at = IF s.to = "return" THEN caller ELSE s.to,
                !.calls = IF (s.to = "return" /\ caller = "done") \/ @ >= MaxCalls
                            THEN @ ELSE @ + 1]
  /\ UNCHANGED <<heap0, arg, prev>>

\* toObject and toArray call toObjectLike(value, true, true) and then
\* themselves on what it returned.
StepToObjectLike ==
  /\ call # NoCall /\ call.at = "toObjectLike"
  /\ Stepped(toObjectLikeStep(heap, out, call.noBad, call.nullAssign),
             IF call.fn = "toObjectLike" THEN "done" ELSE call.fn)

StepToObject ==
  /\ call # NoCall /\ call.at = "toObject"
  /\ Stepped(toObjectStep(heap, out), "done")

StepToArray ==
  /\ call # NoCall /\ call.at = "toArray"
  /\ Stepped(toArrayStep(heap, out), "done")

RecNext == RecBegin \/ StepToObjectLike \/ StepToObject \/ StepToArray

\* An invocation that has not returned always has its step: each step is
\* guarded by call.at alone.
RecSpec == RecInit /\ [][RecNext]_vars

(***************************************************************************)
(* Cast claims                                                             *)
(***************************************************************************)
\* s is "false" up to the case of each letter.
SpellsFalse(s) ==
  /\ Len(s) = 5
  /\ s[1] \in {"f", "F"} /\ s[2] \in {"a", "A"} /\ s[3] \in {"l", "L"}
  /\ s[4] \in {"s", "S"} /\ s[5] \in {"e", "E"}

\* C10: toBoolean returns a boolean unchanged; a string gives false exactly when
\* it is empty, is "0", or is "false" in any letter case, and true otherwise;
\* any other value gives its standard boolean coercion (false for null,
\* undefined, 0 and NaN, true for the rest).
C10_ToBoolean ==
  call.fn = "toBoolean" =>
    /\ out.t = "boolean"
    /\ arg.t = "boolean" => out = arg
    /\ arg.t = "string" =>
         (out.v = FALSE <=> (arg.v = <<>> \/ arg.v = <<"0">> \/ SpellsFalse(arg.v)))
    /\ arg.t \notin {"boolean", "string"} =>
         (out.v = FALSE <=>
            (IsNullish(arg) \/ (arg.t = "number" /\ (arg.k = "NaN" \/ arg.v = 0))))

\* A mixed-case spelling of "false" was cast to false.
C10_Witness ==
  /\ call.fn = "toBoolean"
  /\ arg = Str(<<"F", "a", "L", "s", "E">>)
  /\ out = Bool(FALSE)

\* The string comparison of two primitive operands: -1, 0 or 1.
StringOrder(v1, v2) == compareStrings(<<>>, v1, v2)

\* A non-empty string made of '0' and tab characters only.
ZeroTabString(v) ==
  /\ v.t = "string" /\ v.v # <<>>
  /\ \A i \in 1..Len(v.v) : v.v[i] \in {"0", "\t"}

IsPrimitive(v) == v.t \in {"number", "string", "boolean", "null", "undefined"}

\* C11 (as claimed): when an operand of compare is a string made entirely of
\* '0' and tab characters, the result is the case-insensitive string comparison
\* of the two original operands, and compare of a tab-only string with the
\* number 0 is not 0.
C11_ZeroTabComparedAsString ==
  (call.fn = "compare" /\ IsPrimitive(arg.a) /\ IsPrimitive(arg.b)) =>
    /\ (ZeroTabString(arg.a) \/ ZeroTabString(arg.b)) => out = StringOrder(arg.a, arg.b)
    /\ (arg = Pair(Str(<<"\t">>), Num(0))) => out # Num(0)

\* A string whose numeric value is 0 and that holds neither '0' nor a tab:
\* the empty string or white space without a tab.
BlankString(v) ==
  /\ v.t = "string"
  /\ \A i \in 1..Len(v.v) : v.v[i] \in {" ", "\n", "\r"}

\* C11 (amended): an operand that is a blank string (empty, or white space
\* without a tab) is not compared as the number zero: the result is the
\* case-insensitive string comparison of the original operands.  A string made
\* of '0' and tab characters whose numeric value is 0 IS compared as the number
\* zero: against a number n that is not NaN the result is 0 - n, and compare
\* of a tab-only string with the number 0 is 0.
C11_BlankComparedAsString ==
  (call.fn = "compare" /\ IsPrimitive(arg.a) /\ IsPrimitive(arg.b)) =>
    /\ (BlankString(arg.a) \/ BlankString(arg.b)) => out = StringOrder(arg.a, arg.b)
    /\ (/\ ZeroTabString(arg.a) /\ StringToNumber(arg.a.v) = Num(0)
        /\ arg.b.t = "number" /\ ~IsNaN(arg.b)) => out = Negate(arg.b)
    /\ (arg = Pair(Str(<<"\t">>), Num(0))) => out = Num(0)
    /\ (arg = Pair(Str(<<>>), Num(0))) => out # Num(0)

\* A tab-only string was compared with the number 0 as the number zero.
C11_Witness ==
  /\ call.fn = "compare"
  /\ arg = Pair(Str(<<"\t">>), Num(0))
  /\ out = Num(0)

IsNeg(x) ==
  /\ x.t = "number"
  /\ (x.k = "Infinity" /\ x.v < 0) \/ (IsFinite(x) /\ ToQ(x)[1] < 0)

IsPos(x) ==
  /\ x.t = "number"
  /\ (x.k = "Infinity" /\ x.v > 0) \/ (IsFinite(x) /\ ToQ(x)[1] > 0)

\* C17: on numbers (NaN and both infinities included), booleans, null,
\* undefined and strings, compare returns a number that is never NaN;
\* compare(v, v) is 0; and compare(a, b) is negative exactly when
\* compare(b, a) is positive, positive exactly when compare(b, a) is
\* negative, and 0 exactly when compare(b, a) is 0.
C17_CompareAntisymmetric ==
  (call.fn = "compare" /\ IsPrimitive(arg.a) /\ IsPrimitive(arg.b)) =>
    /\ out.t = "number" /\ ~IsNaN(out)
    /\ arg.a = arg.b => out = Num(0)
    /\ prev # NoCall =>
         /\ IsNeg(out) <=> IsPos(prev.out)
         /\ IsPos(out) <=> IsNeg(prev.out)
         /\ out = Num(0) <=> prev.out = Num(0)

\* compare(-Infinity, Infinity) was negative and compare(Infinity, -Infinity),
\* called next, positive.
C17_Witness ==
  /\ call.fn = "compare" /\ prev # NoCall
  /\ prev.arg = Pair(NegInf, PosInf) /\ IsNeg(prev.out)
  /\ arg = Pair(PosInf, NegInf) /\ IsPos(out)

\* C12: toNumber returns a number that is not NaN for every input; a number
\* other than NaN is returned unchanged; NaN, and any input whose numeric
\* conversion gives NaN, gives 0.
C12_ToNumberTotal ==
  call.fn = "toNumber" =>
    /\ out.t = "number" /\ ~IsNaN(out)
    /\ (arg.t = "number" /\ ~IsNaN(arg)) => out = arg
    /\ (arg = NaN \/ arg = VUndef \/ arg = Str(<<"a">>) \/ ToNumberJS(heap, arg) = NaN)
         => out = Num(0)

\* The inputs C13 lists: big integers, numbers, booleans, null, undefined and
\* strings.
InBigIntDomain(v) ==
  v.t \in {"bigint", "number", "boolean", "null", "undefined", "string"}

\* C13: on big integers, numbers (NaN and the infinities included), booleans,
\* null, undefined and strings of every form, toBigInt returns a big integer
\* and raises nothing; a big integer is returned unchanged, an input whose
\* numeric value is NaN gives 0n, and a finite number is truncated toward zero.
C13_ToBigIntTotal ==
  (call.fn = "toBigInt" /\ InBigIntDomain(arg)) =>
    /\ out.t = "bigint"
    /\ arg.t = "bigint" => out = arg
    /\ ToNumberJS(heap, arg) = NaN => out = BigIntV(0)
    /\ (arg.t = "number" /\ IsFinite(arg)) => out = BigIntV(QTrunc(ToQ(arg)))

\* C14: toListIndex returns ALL, INVALID or an integer i with 1 <= i <= length;
\* ALL only for index 'all' with acceptAll; 'last' gives length when
\* length > 0; and no number when length is 0.
C14_ListIndexRange ==
  call.fn = "toListIndex" =>
    /\ \/ out \in {LIST_ALL, LIST_INVALID}
       \/ out.t = "number" /\ out.k = "finite" /\ 1 <= out.v /\ out.v <= arg.length
    /\ out = LIST_ALL => (arg.index = Str(<<"a", "l", "l">>) /\ arg.acceptAll)
    /\ (arg.index = Str(<<"l", "a", "s", "t">>) /\ arg.length > 0) => out = Num(arg.length)
    /\ arg.length = 0 => out.t # "number"

\* C15: for a string beginning with "(n)", asNumberedItem gives what it gives
\* for the number n with the same count and the same list of valid options
\* (out is the result for the number, prev.out the result for the string).
C15_PrefixSameAsNumber ==
  (call.fn = "asNumberedItem" /\ prev # NoCall) => out = prev.out

\* A plain key-value mapping (not an array, not a Map).
IsMapping(h, v) == v.t = "ref" /\ h[v.v].kind = "object"

\* A text that is not JSON.
FailsToParse(v) == v.t = "string" /\ ~ParseText(v.v, <<>>).ok

\* C16: toObject returns a key-value mapping for every input, an empty one
\* when the input is an array, null or undefined; toArray returns an array for
\* every input, an empty one when the input is a key-value mapping, null or
\* undefined; a text that fails to parse gives the empty container of the
\* target shape.
C16_ContainerShapes ==
  /\ call.fn = "toObject" =>
       /\ IsMapping(heap, out)
       /\ (IsArray(heap0, arg) \/ IsNullish(arg)) => heap[out.v].items = <<>>
       /\ FailsToParse(arg) => heap[out.v].items = <<>>
  /\ call.fn = "toArray" =>
       /\ IsArray(heap, out)
       /\ (IsMapping(heap0, arg) \/ IsNullish(arg)) => heap[out.v].items = <<>>
       /\ FailsToParse(arg) => heap[out.v].items = <<>>

\* The number of invocations a text can still cause: one for a text that is
\* not a single string literal, one more for each level of quoting.
RECURSIVE TextRank(_)
TextRank(v) ==
  IF v.t # "string" \/ v.v = <<>> THEN 0
  ELSE IF Len(v.v) = 1 /\ IsStrTok(v.v[1]) THEN 1 + TextRank(Str(StrContent(v.v[1])))
  ELSE 1

\* A bound on the invocations still to come, the current one included.
Rank ==
  IF call = NoCall \/ call.at = "done" THEN 0
  ELSE IF call.at = "toObjectLike"
    THEN (IF call.fn = "toObjectLike" THEN 1 ELSE IF call.fn = "toObject" THEN 2 ELSE 3)
         + TextRank(out)
  ELSE IF call.at = "toObject"
    THEN (IF IsObjectType(out) THEN 1 ELSE 3 + TextRank(out))
  ELSE IF IsArray(heap, out) THEN 1
  ELSE IF out.t = "ref" THEN 2
  ELSE 4 + TextRank(out)

\* C18: the recursion of toObjectLike, toObject and toArray terminates: every
\* invocation strictly lowers a natural number (the levels of quoting left in
\* the text plus the calls the entry point still owes), so every call returns
\* after finitely many invocations; and what it returns is not a text.
C18_CoercionsTerminate ==
  [][call # NoCall => (Rank' < Rank /\ (call'.at = "done" => out'.t # "string"))]_vars

\* toObject returned on a string that encodes a string that encodes a string,
\* after one invocation for each level of quoting and more.
C18_Witness ==
  /\ call.fn = "toObject" /\ call.at = "done"
  /\ arg = Str(<<TokStr3>>)
  /\ call.calls >= 5

====
